---- MODULE Spec2Model ----
(***************************************************************************)
(* Cross-reference processor of pydoc-markdown                             *)
(* (src/src/pydoc_markdown/contrib/processors/crossref.py).                *)
(*                                                                         *)
(* Text is a sequence of one-character strings, so that the regular        *)
(* expression, the string slicing of handler() and the three output        *)
(* formats are computed character by character.                            *)
(***************************************************************************)
EXTENDS Integers, Sequences, FiniteSets, TLC

\* ------------------------------------------------------------------ bounds
\* Longest docstring of the exhaustive single-node specification SpecText.
MaxLen == 5
\* Most nodes in a tree of the multi-node specification Spec.
MaxNodes == 3
\* Most '#' characters in all the docstrings of one tree of Spec.
MaxTokens == 4

\* -------------------------------------------------------------- characters
\* Python's \w (and \d, which \w contains), restricted to ASCII.
WordChars ==
  { "a","b","c","d","e","f","g","h","i","j","k","l","m","n","o","p","q","r",
    "s","t","u","v","w","x","y","z","A","B","C","D","E","F","G","H","I","J",
    "K","L","M","N","O","P","Q","R","S","T","U","V","W","X","Y","Z",
    "0","1","2","3","4","5","6","7","8","9","_" }

\* The character class [\w\d\._] of the reference pattern.
NameChar(c) == c \in WordChars \/ c = "."

\* \B in front of a '#': '#' is not a word character, so the position is a
\* non-boundary exactly when it is the start of the text or follows a
\* non-word character.
NotBoundary(s, p) == p = 1 \/ s[p - 1] \notin WordChars

\* Greedy [\w\d\._]* from index i: the index of the last character of the run
\* (i - 1 when the run is empty).
RECURSIVE RunEnd(_, _)
RunEnd(s, i) ==
  IF i <= Len(s) /\ NameChar(s[i]) THEN RunEnd(s, i + 1) ELSE i - 1

Slice(s, a, b) == IF a > b THEN << >> ELSE SubSeq(s, a, b)

\* Whether  \B#(?P<ref>[\w\d\._]+)  matches at index p; the two optional
\* groups that follow can never make the match fail.
MatchesAt(s, p) ==
  /\ p + 1 <= Len(s)
  /\ s[p] = "#"
  /\ NotBoundary(s, p)
  /\ NameChar(s[p + 1])

\* The match object of the pattern at index p (MatchesAt(s, p) holds):
\* the groups ref, parens, trailing (<< >> for a group that did not take part)
\* and the span [start, stop] of the whole match.
MatchAt(s, p) ==
  LET e    == RunEnd(s, p + 1)
      hasP == e + 2 <= Len(s) /\ s[e + 1] = "(" /\ s[e + 2] = ")"
      q    == IF hasP THEN e + 2 ELSE e
      te   == IF q + 2 <= Len(s) /\ s[q + 1] = "#" THEN RunEnd(s, q + 2) ELSE q
      hasT == te >= q + 2
  IN  [ start    |-> p,
        stop     |-> IF hasT THEN te ELSE q,
        ref      |-> Slice(s, p + 1, e),
        parens   |-> IF hasP THEN << "(", ")" >> ELSE << >>,
        trailing |-> IF hasT THEN Slice(s, q + 1, te) ELSE << >> ]

\* re.sub's scan: the leftmost index >= pos where the pattern matches, 0 if
\* there is none.
RECURSIVE search(_, _)
search(s, pos) ==
  IF pos > Len(s) THEN 0
  ELSE IF MatchesAt(s, pos) THEN pos
  ELSE search(s, pos + 1)

\* All the matches re.sub finds in s from pos on, left to right,
\* non-overlapping.
RECURSIVE finditer(_, _)
finditer(s, pos) ==
  LET p == search(s, pos)
  IN  IF p = 0 THEN << >>
      ELSE << MatchAt(s, p) >> \o finditer(s, MatchAt(s, p).stop + 1)

\* lstrip with the strip left out: the trailing group keeps its '#'.
lstrip_kept(s) == s

\* str.lstrip of the character '#' 
RECURSIVE lstrip(_)
lstrip(s) == IF s # << >> /\ s[1] = "#" THEN lstrip(Tail(s)) ELSE s

\* str.endswith of a dot
endswith_dot(s) == s # << >> /\ s[Len(s)] = "."

\* s[:-1]
drop_last(s) == Slice(s, 1, Len(s) - 1)

\* Dot-join of the names of a path (lines 120, 128); a name is itself a sequence of characters.
RECURSIVE join(_)
join(path) ==
  IF path = << >> THEN << >>
  ELSE IF Len(path) = 1 THEN path[1]
  ELSE path[1] \o << "." >> \o join(Tail(path))

\* ----------------------------------------------------------- output formats
\* The grave accent (U+0060) that opens and closes a Markdown code span.  The
\* character cannot be written inside a TLA+ string, so it has a name; like
\* every other element of a text it is an atom that is not a word character.
Backtick == "GRAVE"

\* Line 119, tomli_w.dumps of the one-key table: one key/value line.  The display text holds
\* only name characters and parentheses, none of which TOML escapes.
toml_dumps(text) ==
  << "t","e","x","t"," ","="," ","\"" >> \o text \o << "\"", "\n" >>

\* Line 120: the @link directive with the joined target path and the options.
link_directive(target_path, text) ==
  << "{","@","l","i","n","k"," ","p","y","d","o","c",":" >> \o join(target_path)
    \o << " ",":","w","i","t","h"," " >> \o toml_dumps(text) \o << "}" >>

\* Line 125: the Markdown link, display text in a code span, then the address.
hyperlink(text, href) ==
  << "[", Backtick >> \o text \o << Backtick, "]", "(" >> \o href \o << ")" >>

\* Line 130: the display text in a code span.
inline_code(text) == << Backtick >> \o text \o << Backtick >>

\* --------------------------------------------------------------- resolvers
\* What a resolver answers when it is asked about one reference: nothing
\* (None), a value (an address for Resolver.resolve_ref, the path of the
\* target object for ResolverV2.resolve_reference), or an exception.
Absent   == [kind |-> "absent", val |-> << >>]
Raises   == [kind |-> "raise",  val |-> << >>]
NotThere == [kind |-> "unconfigured", val |-> << >>]
Found(v) == [kind |-> "found",  val |-> v]

\* Addresses a basic resolver hands out: a page address and an in-page anchor.
PageHref == << "/","a","p","i","/","F" >>
AnchorHref == << "#","F" >>
Hrefs == { PageHref, AnchorHref }

\* Paths of the objects a typed resolver hands out.
Targets == { << << "p","k","g" >>, << "T" >> >> }

\* resolve with the two branches of lines 114-125 in the other order: the
\* basic resolver is asked first.
resolve_basic_first(v2, basic, o2, o1) ==
  IF basic THEN
    [ asked |-> "basic",
      kind  |-> IF o1.kind = "raise" THEN "raise"
                ELSE IF o1.kind = "found" THEN "href" ELSE "none",
      val   |-> o1.val ]
  ELSE IF v2 THEN
    [ asked |-> "v2",
      kind  |-> IF o2.kind = "raise" THEN "raise"
                ELSE IF o2.kind = "found" THEN "link" ELSE "none",
      val   |-> o2.val ]
  ELSE [ asked |-> "none", kind |-> "none", val |-> << >> ]

\* resolve with line 122 an if on a still-missing result instead of an elif:
\* the basic resolver is asked when the typed one finds nothing.
resolve_fallback(v2, basic, o2, o1) ==
  IF v2 /\ o2.kind = "raise" THEN
    [ asked |-> "v2", kind |-> "raise", val |-> << >> ]
  ELSE IF v2 /\ o2.kind = "found" THEN
    [ asked |-> "v2", kind |-> "link", val |-> o2.val ]
  ELSE IF basic THEN
    [ asked |-> "basic",
      kind  |-> IF o1.kind = "raise" THEN "raise"
                ELSE IF o1.kind = "found" THEN "href" ELSE "none",
      val   |-> o1.val ]
  ELSE [ asked |-> IF v2 THEN "v2" ELSE "none", kind |-> "none", val |-> << >> ]

\* Lines 112-125: which resolver handler() asks, and what comes of it.
\* o2 / o1 are the answers the typed / the basic resolver give for the lookup
\* name.  kind link: structured directive, href: hyperlink, none: result
\* stays None, raise: the exception of the resolver leaves handler().
resolve(v2, basic, o2, o1) ==
  IF v2 THEN
    [ asked |-> "v2",
      kind  |-> IF o2.kind = "raise" THEN "raise"
                ELSE IF o2.kind = "found" THEN "link" ELSE "none",
      val   |-> o2.val ]
  ELSE IF basic THEN
    [ asked |-> "basic",
      kind  |-> IF o1.kind = "raise" THEN "raise"
                ELSE IF o1.kind = "found" THEN "href" ELSE "none",
      val   |-> o1.val ]
  ELSE [ asked |-> "none", kind |-> "none", val |-> << >> ]

\* Line 104: the dot is taken from the trailing group.
trailing_dot(trailing) == trailing # << >> /\ endswith_dot(trailing)

\* ref_dot with the branch of lines 107-109 missing: ref keeps its dot.
ref_dot_never(ref, parens, trailing) == FALSE

\* Line 107: the dot is taken from ref (trailing is the stripped group).
ref_dot(ref, parens, trailing) ==
  ~trailing_dot(trailing) /\ parens = << >> /\ endswith_dot(ref)

\* Lines 133-134
add_dot(result, has_trailing_dot) ==
  IF has_trailing_dot THEN result \o << "." >> ELSE result

\* setdefault_append as a plain assignment unresolved[uid] = [ref]: a later
\* reference of the node replaces the earlier ones.
setdefault_overwrite(report, uid, ref) ==
  IF \E i \in 1..Len(report) : report[i].uid = uid
  THEN [ i \in 1..Len(report) |->
           IF report[i].uid = uid
           THEN [report[i] EXCEPT !.refs = << ref >>]
           ELSE report[i] ]
  ELSE Append(report, [uid |-> uid, refs |-> << ref >>])

\* Lines 128-129: unresolved.setdefault(uid, []).append(ref).  The dict is a
\* sequence of entries in insertion order.
setdefault_append(report, uid, ref) ==
  IF \E i \in 1..Len(report) : report[i].uid = uid
  THEN [ i \in 1..Len(report) |->
           IF report[i].uid = uid
           THEN [report[i] EXCEPT !.refs = Append(@, ref)]
           ELSE report[i] ]
  ELSE Append(report, [uid |-> uid, refs |-> << ref >>])

\* handler(match), lines 97-136, for a resolver call that returns.
handler(m, v2, basic, o2, o1) ==
  LET stripped == lstrip(m.trailing)
      tdot     == trailing_dot(stripped)
      rdot     == ref_dot(m.ref, m.parens, stripped)
      trailing == IF tdot THEN drop_last(stripped) ELSE stripped
      ref      == IF rdot THEN drop_last(m.ref) ELSE m.ref
      has_trailing_dot == tdot \/ rdot
      text     == ref \o m.parens \o trailing
      r        == resolve(v2, basic, o2, o1)
      result   == IF r.kind = "link" THEN link_directive(r.val, text)
                  ELSE IF r.kind = "href" THEN hyperlink(text, r.val)
                  ELSE inline_code(ref \o m.parens \o trailing)
  IN  [ ref     |-> ref,
        text    |-> text,
        dot     |-> has_trailing_dot,
        asked   |-> r.asked,
        raised  |-> r.kind = "raise",
        missed  |-> r.kind = "none",
        result  |-> add_dot(result, has_trailing_dot) ]

\* -------------------------------------------------------------------- state
VARIABLES
  nodes,        \* the API tree: the paths of its objects in docspec.visit order
  docstring,    \* per node: [present, content], node.docstring
  orig,         \* docstring as it was when process() was called
  resolver_v2,  \* whether self.resolver_v2 is set
  resolver,     \* whether process() was given a resolver
  pc,           \* "visit", "sub" (inside re.sub), "done", "failed"
  idx,          \* the node docspec.visit is at
  pos,          \* re.sub: where the scan of the current docstring resumes
  out,          \* re.sub: the text built so far
  unresolved,   \* the dict of process(), in insertion order
  subs,         \* the handler() calls that returned, in order
  warnings      \* what logger.warning was called with

vars == << nodes, docstring, orig, resolver_v2, resolver, pc, idx, pos, out,
           unresolved, subs, warnings >>

\* The answers the two resolvers give for one lookup.  A resolver that is
\* not configured gives none; the basic resolver is never called while a
\* typed one is set (line 122 is an elif), so there it cannot raise and all
\* that is told apart is whether it has an address for the name.
V2Answers == IF resolver_v2 THEN {Absent, Raises} \cup {Found(t) : t \in Targets}
             ELSE {NotThere}
BasicAnswers ==
  IF ~resolver THEN {NotThere}
  ELSE IF resolver_v2 THEN {Absent, Found(PageHref)}
  ELSE {Absent, Raises} \cup {Found(h) : h \in Hrefs}

\* uid taken from node.name instead of the joined node.path.
uid_name_only(i) == nodes[i][Len(nodes[i])]

\* uid of line 128 for node i
uid(i) == join(nodes[i])

\* ---------------------------------------------------------- initial states
NoDoc == [present |-> FALSE, content |-> << >>]
Doc(s) == [present |-> TRUE, content |-> s]

\* Characters of the docstrings of SpecText: the '#', two word characters,
\* the dot and the two parentheses (a lone parenthesis is a character
\* outside the grammar).
Alphabet == { "#", "F", "b", ".", "(", ")" }

\* Three references in a row, the shortest text in which a '#' follows a
\* reference that has a trailing suffix.
ThreeInARow == << "#","F","#","b","#","F" >>

\* Every text of at most MaxLen characters, and ThreeInARow.
Texts == UNION { [1..n -> Alphabet] : n \in 0..MaxLen } \cup { ThreeInARow }

\* The objects trees are made of, in visit order: module m, its class C, the
\* method f of C, and a second module whose name is dotted.
Universe ==
  << << <<"m">> >>,
     << <<"m">>, <<"C">> >>,
     << <<"m">>, <<"C">>, <<"f">> >>,
     << <<"m",".","C">> >> >>

\* A tree holds the parent of every object it holds.
IsTree(S) ==
  /\ Cardinality(S) <= MaxNodes
  /\ 2 \in S => 1 \in S
  /\ 3 \in S => 2 \in S

RECURSIVE Pick(_, _)
Pick(S, i) ==
  IF i > Len(Universe) THEN << >>
  ELSE (IF i \in S THEN << Universe[i] >> ELSE << >>) \o Pick(S, i + 1)

Trees == { Pick(S, 1) : S \in { T \in SUBSET (1..Len(Universe)) : IsTree(T) } }

\* Docstrings of the trees of Spec: none, one reference that ends a
\* sentence, a callable followed by a reference with an appended suffix, and
\* the renamed reference of the class docstring (line 48).
SeeF == << "S","e","e"," ","#","F","." >>
CallAndAppend == << "#","b","(",")"," ","#","F","#","s" >>
Rename == << "#","t","~","F" >>
TreeDocs == { NoDoc, Doc(SeeF), Doc(CallAndAppend), Doc(Rename) }

RECURSIVE TokenTotal(_)
TokenTotal(ds) ==
  IF ds = << >> THEN 0
  ELSE Len(finditer(ds[1].content, 1)) + TokenTotal(Tail(ds))

InitCommon ==
  /\ resolver_v2 \in BOOLEAN
  /\ resolver \in BOOLEAN
  /\ orig = docstring
  /\ pc = "visit"
  /\ idx = 1
  /\ pos = 0
  /\ out = << >>
  /\ unresolved = << >>
  /\ subs = << >>
  /\ warnings = << >>

Init ==
  /\ nodes \in Trees
  /\ docstring \in [1..Len(nodes) -> TreeDocs]
  /\ TokenTotal(docstring) <= MaxTokens
  /\ InitCommon

InitText ==
  /\ nodes = << Universe[1] >>
  /\ docstring \in { << d >> : d \in {NoDoc} \cup { Doc(s) : s \in Texts } }
  /\ InitCommon

\* ------------------------------------------------------------------ actions
\* _preprocess_refs, lines 94-95: a node without docstring is left alone.
preprocess_skip ==
  /\ pc = "visit"
  /\ idx <= Len(nodes)
  /\ ~docstring[idx].present
  /\ idx' = idx + 1
  /\ UNCHANGED << nodes, docstring, orig, resolver_v2, resolver, pc, pos, out,
                  unresolved, subs, warnings >>

\* _preprocess_refs, line 138: re.sub starts on the content of the node.
sub_begin ==
  /\ pc = "visit"
  /\ idx <= Len(nodes)
  /\ docstring[idx].present
  /\ pc' = "sub"
  /\ pos' = 1
  /\ out' = << >>
  /\ UNCHANGED << nodes, docstring, orig, resolver_v2, resolver, idx,
                  unresolved, subs, warnings >>

\* re.sub finds the next match and handler() returns its replacement.
handler_return ==
  /\ pc = "sub"
  /\ search(docstring[idx].content, pos) # 0
  /\ \E o2 \in V2Answers, o1 \in BasicAnswers :
       LET s == docstring[idx].content
           m == MatchAt(s, search(s, pos))
           h == handler(m, resolver_v2, resolver, o2, o1)
       IN  /\ ~h.raised
           /\ out' = out \o Slice(s, pos, m.start - 1) \o h.result
           /\ pos' = m.stop + 1
           /\ unresolved' = IF h.missed
                            THEN setdefault_append(unresolved, uid(idx), h.ref)
                            ELSE unresolved
           /\ subs' = Append(subs, [node |-> idx, m |-> m, o2 |-> o2,
                                    o1 |-> o1, h |-> h])
  /\ UNCHANGED << nodes, docstring, orig, resolver_v2, resolver, pc, idx,
                  warnings >>

\* handler_raise for a substitution done in place, match by match: the text
\* built so far is in the docstring when the exception leaves.
handler_raise_partial ==
  /\ pc = "sub"
  /\ search(docstring[idx].content, pos) # 0
  /\ \E o2 \in V2Answers, o1 \in BasicAnswers :
       LET s == docstring[idx].content
           m == MatchAt(s, search(s, pos))
       IN  handler(m, resolver_v2, resolver, o2, o1).raised
  /\ LET s == docstring[idx].content
     IN  docstring' = [docstring EXCEPT
                         ![idx].content = out \o Slice(s, pos, Len(s))]
  /\ pc' = "failed"
  /\ UNCHANGED << nodes, orig, resolver_v2, resolver, idx, pos, out,
                  unresolved, subs, warnings >>

\* The resolver raises inside handler(): the exception leaves re.sub,
\* docspec.visit and process(); line 138 never assigns and lines 76-85 are
\* not reached.
handler_raise ==
  /\ pc = "sub"
  /\ search(docstring[idx].content, pos) # 0
  /\ \E o2 \in V2Answers, o1 \in BasicAnswers :
       LET s == docstring[idx].content
           m == MatchAt(s, search(s, pos))
       IN  handler(m, resolver_v2, resolver, o2, o1).raised
  /\ pc' = "failed"
  /\ UNCHANGED << nodes, docstring, orig, resolver_v2, resolver, idx, pos, out,
                  unresolved, subs, warnings >>

\* sub_end with the value of re.sub dropped instead of assigned.
sub_end_dropped ==
  /\ pc = "sub"
  /\ search(docstring[idx].content, pos) = 0
  /\ pc' = "visit"
  /\ idx' = idx + 1
  /\ pos' = 0
  /\ out' = << >>
  /\ UNCHANGED << nodes, docstring, orig, resolver_v2, resolver, unresolved,
                  subs, warnings >>

\* re.sub finds no further match; line 138 assigns the new content and
\* docspec.visit moves on.
sub_end ==
  /\ pc = "sub"
  /\ search(docstring[idx].content, pos) = 0
  /\ LET s == docstring[idx].content
     IN  docstring' = [docstring EXCEPT
                         ![idx].content = out \o Slice(s, pos, Len(s))]
  /\ pc' = "visit"
  /\ idx' = idx + 1
  /\ pos' = 0
  /\ out' = << >>
  /\ UNCHANGED << nodes, orig, resolver_v2, resolver, unresolved, subs,
                  warnings >>

RECURSIVE total(_)
total(report) ==
  IF report = << >> THEN 0 ELSE Len(report[1].refs) + total(Tail(report))

\* process(), lines 76-85, after docspec.visit returned.
process_end ==
  /\ pc = "visit"
  /\ idx > Len(nodes)
  /\ warnings' = IF unresolved # << >>
                 THEN Append(warnings, [count |-> total(unresolved),
                                        summary |-> unresolved])
                 ELSE warnings
  /\ pc' = "done"
  /\ UNCHANGED << nodes, docstring, orig, resolver_v2, resolver, idx, pos, out,
                  unresolved, subs >>

Next ==
  \/ preprocess_skip
  \/ sub_begin
  \/ handler_return
  \/ handler_raise
  \/ sub_end
  \/ process_end

Spec == Init /\ [][Next]_vars

SpecText == InitText /\ [][Next]_vars

\* ------------------------------------------------- vocabulary of the claims
\* The records of the handler() calls made for node n, left to right.
RecordsOf(n) == SelectSeq(subs, LAMBDA r : r.node = n)

\* The substitution text for display text t in the form record r ended in:
\* fallback, structured directive or hyperlink.
Rendered(r, t) ==
  IF r.h.missed THEN inline_code(t)
  ELSE IF r.h.asked = "v2" THEN link_directive(r.o2.val, t)
  ELSE hyperlink(t, r.o1.val)

\* s with the span of every recorded match replaced by the match's result.
RECURSIVE Splice(_, _, _)
Splice(s, k, recs) ==
  IF recs = << >> THEN Slice(s, k, Len(s))
  ELSE Slice(s, k, recs[1].m.start - 1) \o recs[1].h.result
         \o Splice(s, recs[1].m.stop + 1, Tail(recs))

\* The lookup names of the recorded calls that ended unresolved.
RECURSIVE MissedRefs(_)
MissedRefs(recs) ==
  IF recs = << >> THEN << >>
  ELSE (IF recs[1].h.missed THEN << recs[1].h.ref >> ELSE << >>)
         \o MissedRefs(Tail(recs))

HasToken(s) == search(s, 1) # 0

AllWord(s) == s # << >> /\ \A i \in 1..Len(s) : s[i] \in WordChars

\* ------------------------------------------------------------------ claims

\* C1: when a typed and a basic resolver are both configured and the typed
\* resolver returns a target for the lookup name of a token, the text emitted
\* for the token is the structured link directive with the dot-joined path of
\* the target and the display text (followed only by the re-appended period,
\* if any), and it is not the basic hyperlink form.
C1_TypedTargetGivesDirective ==
  \A i \in 1..Len(subs) :
    LET r == subs[i]
    IN  (resolver_v2 /\ resolver /\ r.o2.kind = "found") =>
          /\ r.h.result \in { link_directive(r.o2.val, r.h.text),
                              link_directive(r.o2.val, r.h.text) \o << "." >> }
          /\ r.h.result[1] # "["
          /\ ~r.h.missed

C1_Witness ==
  \E i \in 1..Len(subs) :
    /\ resolver_v2 /\ resolver
    /\ subs[i].o2.kind = "found"
    /\ subs[i].o1.kind = "found"
    /\ subs[i].h.result[1] = "{"

\* C2 as claimed: when both resolvers are configured, the typed one returns
\* absent and the basic one has an address for the same lookup name, the
\* inline hyperlink of the display text and that address is emitted; a token
\* is unresolved only if both resolvers return nothing.
C2_FallsBackToBasic ==
  \A i \in 1..Len(subs) :
    LET r == subs[i]
    IN  (resolver_v2 /\ resolver /\ r.o2.kind = "absent" /\ r.o1.kind = "found") =>
          /\ ~r.h.missed
          /\ r.h.result \in { hyperlink(r.h.text, r.o1.val),
                              hyperlink(r.h.text, r.o1.val) \o << "." >> }

\* C2 amended: a configured typed resolver is the only resolver consulted.
\* If it returns absent the token is unresolved and rendered as inline-code
\* fallback whatever address the basic resolver has for the name; the basic
\* resolver is consulted, and its address gives the inline hyperlink, only
\* when no typed resolver is configured; a token is unresolved exactly when
\* the one resolver consulted returns nothing or none is configured.
C2_TypedResolverReplacesBasic ==
  \A i \in 1..Len(subs) :
    LET r == subs[i]
        fallback == { inline_code(r.h.text), inline_code(r.h.text) \o << "." >> }
    IN  /\ (resolver_v2 /\ r.o2.kind = "absent") =>
             r.h.missed /\ r.h.result \in fallback
        /\ (~resolver_v2 /\ resolver /\ r.o1.kind = "found") =>
             /\ ~r.h.missed
             /\ r.h.result \in { hyperlink(r.h.text, r.o1.val),
                                 hyperlink(r.h.text, r.o1.val) \o << "." >> }
        /\ r.h.missed <=>
             \/ resolver_v2 /\ r.o2.kind = "absent"
             \/ ~resolver_v2 /\ resolver /\ r.o1.kind = "absent"
             \/ ~resolver_v2 /\ ~resolver

C2_Witness ==
  \E i \in 1..Len(subs) :
    /\ resolver_v2 /\ resolver
    /\ subs[i].o2.kind = "absent"
    /\ subs[i].o1.kind = "found"
    /\ subs[i].h.missed

\* C3 as claimed: for a token with a trailing suffix (#Name#sub, #Name()#sub)
\* the lookup name is exactly Name and the display text is Name, the call
\* suffix if present, and the trailing suffix verbatim with its '#'.
C3_AppendKeepsHash ==
  \A i \in 1..Len(subs) :
    LET r == subs[i]
        display == r.m.ref \o r.m.parens \o r.m.trailing
    IN  r.m.trailing # << >> =>
          /\ r.h.ref = r.m.ref
          /\ r.h.result \in { Rendered(r, display),
                              Rendered(r, display) \o << "." >> }

\* C3 amended: for a token with a trailing suffix the lookup name is Name
\* (less its final period when there is no call suffix and the suffix does
\* not end in a period) and never holds the suffix; the display text is the
\* lookup name, the call suffix if present, and the suffix without its
\* leading '#' and without a final period, that period being re-appended
\* after the substitution.
C3_AppendDropsHash ==
  \A i \in 1..Len(subs) :
    LET r == subs[i]
        sub    == Tail(r.m.trailing)
        subdot == endswith_dot(sub)
        refdot == ~subdot /\ r.m.parens = << >> /\ endswith_dot(r.m.ref)
        name   == IF refdot THEN drop_last(r.m.ref) ELSE r.m.ref
        display == name \o r.m.parens
                     \o (IF subdot THEN drop_last(sub) ELSE sub)
    IN  r.m.trailing # << >> =>
          /\ r.h.ref = name
          /\ r.h.result = IF subdot \/ refdot
                          THEN Rendered(r, display) \o << "." >>
                          ELSE Rendered(r, display)

C3_Witness ==
  \E i \in 1..Len(subs) :
    /\ subs[i].m.ref = << "F" >>
    /\ subs[i].m.trailing = << "#", "b" >>
    /\ subs[i].h.missed
    /\ subs[i].h.result = << Backtick, "F", "b", Backtick >>

\* C4: a docstring that is one rename token #alias~Name is consumed whole by
\* one substitution whose lookup name is Name and whose display text is
\* alias, with no text left over.
C4_RenameToken ==
  \A n \in 1..Len(nodes) :
    \A k \in 3..(Len(orig[n].content) - 1) :
      LET s     == orig[n].content
          alias == Slice(s, 2, k - 1)
          name  == Slice(s, k + 1, Len(s))
      IN  ( /\ pc = "done"
            /\ s[1] = "#" /\ s[k] = "~"
            /\ AllWord(alias) /\ AllWord(name) ) =>
            /\ Len(RecordsOf(n)) = 1
            /\ RecordsOf(n)[1].h.ref = name
            /\ docstring[n].content = Rendered(RecordsOf(n)[1], alias)

\* C5: for a token without call suffix and without trailing suffix whose
\* written target ends in a period, the lookup name and the display text are
\* the target without that period, and exactly one period follows the
\* substitution text, in each of the three output forms.
C5_TrailingPeriod ==
  \A i \in 1..Len(subs) :
    LET r == subs[i]
        name == drop_last(r.m.ref)
    IN  (r.m.parens = << >> /\ r.m.trailing = << >> /\ endswith_dot(r.m.ref)) =>
          /\ r.h.ref = name
          /\ r.h.result = Rendered(r, name) \o << "." >>

C5_Witness ==
  \E i \in 1..Len(subs) :
    /\ subs[i].m.ref = << "F", "." >>
    /\ subs[i].m.trailing = << >>
    /\ subs[i].h.asked = "basic"
    /\ ~subs[i].h.missed
    /\ pc = "done"
    /\ docstring[1].content = hyperlink(<< "F" >>, subs[i].o1.val) \o << "." >>

\* C6 as claimed: whatever the docstrings and the resolvers, the text
\* process() leaves in every docstring holds no span that matches the
\* reference pattern (so a second run substitutes nothing).
C6_NoTokenLeft ==
  pc = "done" =>
    \A n \in 1..Len(nodes) : ~HasToken(docstring[n].content)

\* A token that ends in a word character and is directly followed by '#' and
\* a name character: the '#' starts no token in the input (it follows a word
\* character) but does once the token before it is replaced.
TokenThenHash(s) ==
  \E p \in 1..Len(s) :
    /\ MatchesAt(s, p)
    /\ p \in { finditer(s, 1)[j].start : j \in 1..Len(finditer(s, 1)) }
    /\ LET e == MatchAt(s, p).stop
       IN  /\ e + 2 <= Len(s)
           /\ s[e] \in WordChars
           /\ s[e + 1] = "#"
           /\ NameChar(s[e + 2])

\* C6 amended: the text process() leaves in a docstring holds no span that
\* matches the reference pattern provided that (a) no token of the docstring
\* that ends in a word character is directly followed by '#' and a name
\* character, and (b) no address the basic resolver returned for it holds a
\* '#' that starts the address or follows a non-word character and is
\* followed by a name character (target path names being identifiers).
C6_NoTokenLeftUnless ==
  pc = "done" =>
    \A n \in 1..Len(nodes) :
      ( /\ ~TokenThenHash(orig[n].content)
        /\ \A i \in 1..Len(subs) :
             (subs[i].node = n /\ subs[i].h.asked = "basic"
                /\ subs[i].o1.kind = "found") =>
               ~HasToken(<< "(" >> \o subs[i].o1.val) ) =>
        ~HasToken(docstring[n].content)

C6_Witness ==
  /\ pc = "done"
  /\ Len(subs) = 2
  /\ subs[1].h.asked = "basic"
  /\ subs[1].o1.val = PageHref
  /\ subs[2].h.missed
  /\ docstring[1].present
  /\ docstring[1].content # orig[1].content
  /\ ~HasToken(docstring[1].content)

\* The two ways a token is left: behind a reference with a suffix, and in an
\* address of the resolver.
C6_LeftBehindSuffix ==
  /\ pc = "done"
  /\ orig[1].content = ThreeInARow
  /\ ~resolver_v2 /\ ~resolver
  /\ docstring[1].content = << Backtick, "F", "b", Backtick, "#", "F" >>

\* C7: with neither resolver configured process() does not fail, every token
\* is replaced by the inline-code fallback of its display text and adds one
\* entry to the unresolved report, so that at the end the report holds as
\* many references as the tree holds tokens.
C7_NoResolver ==
  (~resolver_v2 /\ ~resolver) =>
    /\ pc # "failed"
    /\ \A i \in 1..Len(subs) :
         /\ subs[i].h.missed
         /\ subs[i].h.result \in { inline_code(subs[i].h.text),
                                   inline_code(subs[i].h.text) \o << "." >> }
    /\ total(unresolved) = Len(subs)
    /\ pc = "done" =>
         /\ total(unresolved) = TokenTotal(orig)
         /\ \A n \in 1..Len(nodes) :
              docstring[n].content = Splice(orig[n].content, 1, RecordsOf(n))

C7_Witness ==
  /\ ~resolver_v2 /\ ~resolver
  /\ pc = "done"
  /\ Len(nodes) >= 2
  /\ TokenTotal(orig) >= 3
  /\ total(unresolved) = TokenTotal(orig)

\* The report read as a set of keys and a value per key.
Keys(report) == { report[i].uid : i \in 1..Len(report) }
Value(report, k) ==
  LET i == CHOOSE j \in 1..Len(report) : report[j].uid = k IN report[i].refs

UniquePaths ==
  \A i, j \in 1..Len(nodes) : i # j => nodes[i] # nodes[j]
\* The dot-joined path of node n.
DottedPath(n) == join(nodes[n])
UniqueUids ==
  \A i, j \in 1..Len(nodes) : i # j => DottedPath(i) # DottedPath(j)

\* What C8 says of the report.
ReportPerNode ==
  /\ Keys(unresolved) =
       { DottedPath(n) :
           n \in { k \in 1..Len(nodes) : MissedRefs(RecordsOf(k)) # << >> } }
  /\ \A n \in 1..Len(nodes) :
       MissedRefs(RecordsOf(n)) # << >> =>
         Value(unresolved, DottedPath(n)) = MissedRefs(RecordsOf(n))
  /\ \A i, j \in 1..Len(unresolved) :
       i # j => unresolved[i].uid # unresolved[j].uid

\* C8 as claimed: after process() on a tree with unique node paths the keys
\* of the report are exactly the dot-joined paths of the nodes with an
\* unresolved token, and the value under a key is that node's unresolved
\* lookup names, one per occurrence, left to right.
C8_ReportUniquePaths == (pc = "done" /\ UniquePaths) => ReportPerNode

\* C8 amended: the same, for a tree whose nodes have pairwise distinct
\* dot-joined paths (distinct paths do not suffice: class C of module m and a
\* module named m.C share the key m.C, which then holds the references of
\* both).
C8_ReportUniqueUids == (pc = "done" /\ UniqueUids) => ReportPerNode

C8_Witness ==
  /\ pc = "done"
  /\ UniqueUids
  /\ Len(unresolved) = 2
  /\ Len(unresolved[1].refs) = 1
  /\ Len(unresolved[2].refs) = 2
  /\ \E i \in 1..Len(subs) : ~subs[i].h.missed

\* C9: for a token that carries a call suffix or a trailing suffix the lookup
\* name is the target exactly as written, final period included, and no
\* period is moved behind the substitution on account of the target.
C9_DotKeptWithSuffix ==
  \A i \in 1..Len(subs) :
    LET r == subs[i]
    IN  (r.m.parens # << >> \/ r.m.trailing # << >>) =>
          /\ r.h.ref = r.m.ref
          /\ r.h.dot => endswith_dot(r.m.trailing)

\* C10: when a resolver raises while a token of node N is resolved, the
\* failure ends process(): it is not recorded as an unresolved reference, the
\* docstring of N is as it was before the call even if earlier tokens of N
\* were resolved, the nodes before N keep their rewritten text, the nodes
\* after N are untouched, and no warning is emitted.
C10_ResolverFailure ==
  pc = "failed" =>
    /\ idx \in 1..Len(nodes)
    /\ docstring[idx] = orig[idx]
    /\ \A n \in 1..Len(nodes) :
         /\ n > idx => docstring[n] = orig[n] /\ RecordsOf(n) = << >>
         /\ n < idx =>
              docstring[n].content = Splice(orig[n].content, 1, RecordsOf(n))
    /\ total(unresolved) = Len(MissedRefs(subs))
    /\ warnings = << >>

C10_Witness ==
  /\ pc = "failed"
  /\ idx = 2
  /\ Len(nodes) = 3
  /\ RecordsOf(1) # << >>
  /\ docstring[1] # orig[1]
  /\ RecordsOf(2) # << >>
  /\ ~RecordsOf(2)[1].h.missed
  /\ HasToken(orig[3].content)

====
